---- MODULE Spec2Model ----
(***************************************************************************)
(* Model of the cashweb transaction codec and hashing engine               *)
(* (lib/cashweb-bitcoin/src/transaction/mod.rs) and of the glue layers     *)
(* around it.  Byte buffers are sequences of integers 0..255; a            *)
(* transaction is a record with the fields of the Rust struct.             *)
(***************************************************************************)
EXTENDS Integers, Sequences, FiniteSets, TLC

VARIABLES tx, res

vars == <<tx, res>>

(***************************************************************************)
(* Bounds of the model.                                                    *)
(***************************************************************************)
MaxInputs == 2
MaxOutputs == 2
MaxTrailing == 2

(***************************************************************************)
(* Byte helpers.                                                           *)
(***************************************************************************)
Min(a, b) == IF a < b THEN a ELSE b

Drop(s, n) == SubSeq(s, n + 1, Len(s))

Take(s, n) == SubSeq(s, 1, Min(n, Len(s)))

Reverse(s) == [k \in 1..Len(s) |-> s[Len(s) + 1 - k]]

Repeat(b, n) == [k \in 1..n |-> b]

RECURSIVE Concat(_)
Concat(ss) == IF ss = <<>> THEN <<>> ELSE Head(ss) \o Concat(Tail(ss))

RECURSIVE Sum(_)
Sum(ns) == IF ns = <<>> THEN 0 ELSE Head(ns) + Sum(Tail(ns))

\* put_u32_le / put_u64_le / to_le_bytes: the n low bytes of v, lowest first.
RECURSIVE LeBytes(_, _)
LeBytes(v, n) == IF n = 0 THEN <<>> ELSE <<v % 256>> \o LeBytes(v \div 256, n - 1)

\* get_u32_le / get_u64_le: the number whose little-endian bytes are s.
RECURSIVE LeNat(_)
LeNat(s) == IF s = <<>> THEN 0 ELSE s[1] + 256 * LeNat(Tail(s))

\* A decoded count or length at or above CountCap is represented by CountCap:
\* every buffer of the model is shorter than CountCap bytes, so comparisons
\* with the remaining length and loop bounds are not affected.
CountCap == 4194304

RECURSIVE LeNatCapped(_)
LeNatCapped(s) ==
    IF s = <<>> THEN 0 ELSE Min(CountCap, s[1] + 256 * LeNatCapped(Tail(s)))

(***************************************************************************)
(* VarInt (compact size): one byte below 0xfd, else a marker byte 0xfd,    *)
(* 0xfe, 0xff followed by 2, 4, 8 little-endian bytes.                     *)
(***************************************************************************)
VarInt_encoded_len(v) ==
    IF v < 253 THEN 1 ELSE IF v <= 65535 THEN 3 ELSE 5

VarInt_encode_raw(v) ==
    IF v < 253 THEN <<v>>
    ELSE IF v <= 65535 THEN <<253>> \o LeBytes(v, 2)
    ELSE <<254>> \o LeBytes(v, 4)

VarIntWidth(first) ==
    IF first = 253 THEN 2 ELSE IF first = 254 THEN 4 ELSE 8

VarIntMinimal(first, body) ==
    IF first = 253 THEN LeNatCapped(body) >= 253
    ELSE IF first = 254 THEN LeNatCapped(body) >= 65536
    ELSE \E k \in 5..8 : body[k] # 0

\* Result: [ok, val, rest] or [ok, err].
VarInt_decode(buf) ==
    IF Len(buf) = 0 THEN [ok |-> FALSE, err |-> "TooShort"]
    ELSE IF buf[1] < 253 THEN [ok |-> TRUE, val |-> buf[1], rest |-> Tail(buf)]
    ELSE LET w == VarIntWidth(buf[1])
             body == SubSeq(buf, 2, 1 + w)
         IN  IF Len(buf) < 1 + w THEN [ok |-> FALSE, err |-> "TooShort"]
             ELSE IF ~VarIntMinimal(buf[1], body)
                  THEN [ok |-> FALSE, err |-> "NonMinimal"]
             ELSE [ok |-> TRUE, val |-> LeNatCapped(body), rest |-> Drop(buf, 1 + w)]

(***************************************************************************)
(* Script: VarInt(length) || raw bytes.                                    *)
(***************************************************************************)
Script_default == <<>>

Script_encoded_len(script) == VarInt_encoded_len(Len(script)) + Len(script)

Script_encode_raw(script) == VarInt_encode_raw(Len(script)) \o script

Script_decode(buf) ==
    LET n == VarInt_decode(buf)
    IN  IF ~n.ok THEN [ok |-> FALSE, err |-> "ScriptLengthInvalid"]
        ELSE IF n.val > Len(n.rest) THEN [ok |-> FALSE, err |-> "ScriptTruncated"]
        ELSE [ok |-> TRUE, val |-> SubSeq(n.rest, 1, n.val), rest |-> Drop(n.rest, n.val)]

(***************************************************************************)
(* Outpoint: 32-byte transaction id and 4-byte little-endian index.        *)
(***************************************************************************)
OutpointLen == 36

Outpoint_encode_raw(outpoint) == outpoint.tx_id \o LeBytes(outpoint.vout, 4)

Outpoint_decode(buf) ==
    IF Len(buf) < OutpointLen THEN [ok |-> FALSE, err |-> "OutpointTooShort"]
    ELSE [ok |-> TRUE,
          val |-> [tx_id |-> SubSeq(buf, 1, 32), vout |-> LeNat(SubSeq(buf, 33, 36))],
          rest |-> Drop(buf, OutpointLen)]

(***************************************************************************)
(* Input: outpoint(36) || script || sequence(4).                           *)
(***************************************************************************)
Input_encoded_len(input) == OutpointLen + Script_encoded_len(input.script) + 4

Input_encode_raw(input) ==
    Outpoint_encode_raw(input.outpoint) \o Script_encode_raw(input.script)
        \o LeBytes(input.sequence, 4)

Input_decode(buf) ==
    LET o == Outpoint_decode(buf)
    IN  IF ~o.ok THEN [ok |-> FALSE, err |-> o.err]
        ELSE LET s == Script_decode(o.rest)
             IN  IF ~s.ok THEN [ok |-> FALSE, err |-> s.err]
                 ELSE IF Len(s.rest) < 4 THEN [ok |-> FALSE, err |-> "SequenceTooShort"]
                 ELSE [ok |-> TRUE,
                       val |-> [outpoint |-> o.val, script |-> s.val,
                                sequence |-> LeNat(SubSeq(s.rest, 1, 4))],
                       rest |-> Drop(s.rest, 4)]

(***************************************************************************)
(* Output: value(8) || script.                                             *)
(***************************************************************************)
Output_default == [value |-> 0, script |-> Script_default]

Output_encoded_len(output) == 8 + Script_encoded_len(output.script)

Output_encode_raw(output) == LeBytes(output.value, 8) \o Script_encode_raw(output.script)

Output_decode(buf) ==
    IF Len(buf) < 8 THEN [ok |-> FALSE, err |-> "ValueTooShort"]
    ELSE LET s == Script_decode(Drop(buf, 8))
         IN  IF ~s.ok THEN [ok |-> FALSE, err |-> s.err]
             ELSE [ok |-> TRUE,
                   val |-> [value |-> LeNat(SubSeq(buf, 1, 8)), script |-> s.val],
                   rest |-> s.rest]

(***************************************************************************)
(* SHA-256.  The digest function is abstracted by a deterministic mixing   *)
(* function with 32-byte output: two independent polynomial lanes over     *)
(* the message bytes (modulo the prime 32749), spread over the 32 output   *)
(* bytes.  It stands for a collision-free hash on the messages of the      *)
(* model.                                                                  *)
(***************************************************************************)
\* <<h, p>>: the polynomial of msg[lo..hi] in m and m^(hi - lo + 1), both
\* modulo 32749, by halving the range.
RECURSIVE Poly(_, _, _, _)
Poly(msg, lo, hi, m) ==
    IF lo > hi THEN <<0, 1>>
    ELSE IF lo = hi THEN <<msg[lo] + 1, m>>
    ELSE LET mid == (lo + hi) \div 2
             l == Poly(msg, lo, mid, m)
             r == Poly(msg, mid + 1, hi, m)
         IN  <<(l[1] * r[2] + r[1]) % 32749, (l[2] * r[2]) % 32749>>

Lane(msg, m) == (Poly(msg, 1, Len(msg), m)[1] + 31 * Len(msg)) % 32749

SHA256(msg) ==
    LET lanes == <<Lane(msg, 257), Lane(msg, 263)>>
    IN  [k \in 1..32 |-> (lanes[((k - 1) % 2) + 1] \div (2 ^ ((k - 1) \div 4))) % 256]

\* merkle::sha256d
sha256d(msg) == SHA256(SHA256(msg))

\* merkle::lotus_merkle_root: pairs are hashed with sha256d, an odd level
\* repeats its last node; the empty list has the all-zero root.
RECURSIVE MerkleLevel(_)
MerkleLevel(hashes) ==
    IF hashes = <<>> THEN <<>>
    ELSE IF Len(hashes) = 1 THEN <<sha256d(hashes[1] \o hashes[1])>>
    ELSE <<sha256d(hashes[1] \o hashes[2])>> \o MerkleLevel(Drop(hashes, 2))

RECURSIVE MerkleFold(_, _)
MerkleFold(hashes, height) ==
    IF Len(hashes) = 1 THEN <<hashes[1], height>>
    ELSE MerkleFold(MerkleLevel(hashes), height + 1)

lotus_merkle_root(hashes) ==
    IF hashes = <<>> THEN <<Repeat(0, 32), 0>> ELSE MerkleFold(hashes, 0)

(***************************************************************************)
(* SignatureHashType and its numeric values.                               *)
(***************************************************************************)
SignatureHashType ==
    {"All", "None", "Single", "AnyoneCanPayAll", "AnyoneCanPayNone", "AnyoneCanPaySingle"}

SigHashValue(t) ==
    CASE t = "All" -> 1
      [] t = "None" -> 2
      [] t = "Single" -> 3
      [] t = "AnyoneCanPayAll" -> 129
      [] t = "AnyoneCanPayNone" -> 130
      [] t = "AnyoneCanPaySingle" -> 131

\* Mutant: the predicate follows the 0x80 bit of the numeric value.
is_anyone_can_pay_by_flag(t) == SigHashValue(t) >= 128

\* Mutant: no sighash type takes the single-input branch.
is_anyone_can_pay_never(t) == FALSE

is_anyone_can_pay(t) == t \in {"All", "None", "Single"}

(***************************************************************************)
(* Free functions transaction_hash and transaction_hash_rev.               *)
(***************************************************************************)
transaction_hash(raw_transaction) == SHA256(SHA256(raw_transaction))

transaction_hash_rev(raw_transaction) == Reverse(transaction_hash(raw_transaction))

(***************************************************************************)
(* Encodable for Transaction.                                              *)
(***************************************************************************)
input_count_varint(t) == Len(t.inputs)

output_count_varint(t) == Len(t.outputs)

\* Mutant: the trailing 4 bytes of lock_time are not counted.
encoded_len_no_lock_time(t) ==
    4 + VarInt_encoded_len(Len(t.inputs))
      + Sum([i \in 1..Len(t.inputs) |-> Input_encoded_len(t.inputs[i])])
      + VarInt_encoded_len(Len(t.outputs))
      + Sum([j \in 1..Len(t.outputs) |-> Output_encoded_len(t.outputs[j])])

\* Mutant: the output total sums the inputs a second time.
encoded_len_inputs_twice(t) ==
    4 + VarInt_encoded_len(Len(t.inputs))
      + Sum([i \in 1..Len(t.inputs) |-> Input_encoded_len(t.inputs[i])])
      + VarInt_encoded_len(Len(t.outputs))
      + Sum([i \in 1..Len(t.inputs) |-> Input_encoded_len(t.inputs[i])])
      + 4

encoded_len(t) ==
    LET input_length_varint_length == VarInt_encoded_len(input_count_varint(t))
        input_total_length ==
            Sum([i \in 1..Len(t.inputs) |-> Input_encoded_len(t.inputs[i])])
        output_length_varint_length == VarInt_encoded_len(Len(t.outputs))
        output_total_length ==
            Sum([j \in 1..Len(t.outputs) |-> Output_encoded_len(t.outputs[j])])
    IN  4 + input_length_varint_length + input_total_length
          + output_length_varint_length + output_total_length + 4

\* Mutant: lock_time is written first and version last.
encode_raw_header_swapped(t) ==
    LeBytes(t.lock_time, 4)
        \o VarInt_encode_raw(Len(t.inputs))
        \o Concat([i \in 1..Len(t.inputs) |-> Input_encode_raw(t.inputs[i])])
        \o VarInt_encode_raw(Len(t.outputs))
        \o Concat([j \in 1..Len(t.outputs) |-> Output_encode_raw(t.outputs[j])])
        \o LeBytes(t.version, 4)

encode_raw(t) ==
    LeBytes(t.version, 4)
        \o VarInt_encode_raw(input_count_varint(t))
        \o Concat([i \in 1..Len(t.inputs) |-> Input_encode_raw(t.inputs[i])])
        \o VarInt_encode_raw(output_count_varint(t))
        \o Concat([j \in 1..Len(t.outputs) |-> Output_encode_raw(t.outputs[j])])
        \o LeBytes(t.lock_time, 4)

\* Encodable::encode into a destination with cap bytes of remaining capacity:
\* the capacity is checked against encoded_len before anything is written.
\* A fixed-size destination aborts the write that passes its end (panicked),
\* with the bytes before it already written.
encode(t, cap) ==
    IF cap < encoded_len(t)
    THEN [ok |-> FALSE, err |-> "InsufficientCapacity", written |-> <<>>, panicked |-> FALSE]
    ELSE [ok |-> Len(encode_raw(t)) <= cap, err |-> "",
          written |-> Take(encode_raw(t), cap),
          panicked |-> Len(encode_raw(t)) > cap]

(***************************************************************************)
(* Transaction::decode.  The result is [ok, panic, val, rest] on success   *)
(* and [ok, panic, err, at] on failure: err is the DecodeError value, a    *)
(* tuple of the variant name and its payload; at is not part of the Rust   *)
(* value, it records the index of the element whose decoding failed (-1    *)
(* if none).  panic is set when a read passes the end of the buffer.       *)
(***************************************************************************)
\* Buf::get_u32_le: panics when fewer than 4 bytes remain.
get_u32_le(buf) ==
    IF Len(buf) < 4 THEN [panic |-> TRUE, val |-> 0, rest |-> <<>>]
    ELSE [panic |-> FALSE, val |-> LeNat(SubSeq(buf, 1, 4)), rest |-> Drop(buf, 4)]

VersionTooShort(buf) == Len(buf) < 4

\* Mutant: the remaining length is not checked before lock_time is read.
LockTimeTooShort_unchecked(buf) == FALSE

\* Mutant: lock_time must be the last four bytes of the buffer.
LockTimeTooShort_exact(buf) == Len(buf) # 4

LockTimeTooShort(buf) == Len(buf) < 4

InputCountError(e) == <<"InputCount", e>>

\* Mutant: the inner error of the input is swallowed.
InputError_swallowed(e) == <<"Input", "OutpointTooShort">>

InputError(e) == <<"Input", e>>

OutputCountError(e) == <<"OutputCount", e>>

\* Mutant: an output failure is wrapped as an input failure.
OutputError_as_input(e) == <<"Input", e>>

OutputError(e) == <<"Output", e>>

Failure(err, at) == [ok |-> FALSE, panic |-> FALSE, err |-> err, at |-> at]

Panic == [ok |-> FALSE, panic |-> TRUE, err |-> <<"panic">>, at |-> -1]

\* Mutant: the decoded inputs are collected in reverse order.
RECURSIVE DecodeInputs_reversed(_, _, _)
DecodeInputs_reversed(buf, n, acc) ==
    IF Len(acc) = n THEN [ok |-> TRUE, val |-> acc, rest |-> buf]
    ELSE LET r == Input_decode(buf)
         IN  IF ~r.ok THEN [ok |-> FALSE, err |-> r.err, at |-> Len(acc)]
             ELSE DecodeInputs_reversed(r.rest, n, <<r.val>> \o acc)

\* Mutant: every one of the n declared outputs is attempted before the
\* first error is returned.
RECURSIVE DecodeOutputs_exhaustive(_, _, _)
DecodeOutputs_exhaustive(buf, n, acc) ==
    IF Len(acc) = n THEN [ok |-> TRUE, val |-> acc, rest |-> buf]
    ELSE LET r == Output_decode(buf)
         IN  IF ~r.ok THEN [ok |-> FALSE, err |-> r.err, at |-> n - 1]
             ELSE DecodeOutputs_exhaustive(r.rest, n, Append(acc, r.val))

\* (0..n).map(|_| Input::decode(buf)).collect::<Result<Vec<_>, _>>():
\* stops at the first element that fails.
RECURSIVE DecodeInputs(_, _, _)
DecodeInputs(buf, n, acc) ==
    IF Len(acc) = n THEN [ok |-> TRUE, val |-> acc, rest |-> buf]
    ELSE LET r == Input_decode(buf)
         IN  IF ~r.ok THEN [ok |-> FALSE, err |-> r.err, at |-> Len(acc)]
             ELSE DecodeInputs(r.rest, n, Append(acc, r.val))

RECURSIVE DecodeOutputs(_, _, _)
DecodeOutputs(buf, n, acc) ==
    IF Len(acc) = n THEN [ok |-> TRUE, val |-> acc, rest |-> buf]
    ELSE LET r == Output_decode(buf)
         IN  IF ~r.ok THEN [ok |-> FALSE, err |-> r.err, at |-> Len(acc)]
             ELSE DecodeOutputs(r.rest, n, Append(acc, r.val))

decode(buf) ==
    IF VersionTooShort(buf) THEN Failure(<<"VersionTooShort">>, -1)
    ELSE
    LET version == get_u32_le(buf)
    IN  IF version.panic THEN Panic ELSE
    LET n_inputs == VarInt_decode(version.rest)
    IN  IF ~n_inputs.ok THEN Failure(InputCountError(n_inputs.err), -1) ELSE
    LET inputs == DecodeInputs(n_inputs.rest, n_inputs.val, <<>>)
    IN  IF ~inputs.ok THEN Failure(InputError(inputs.err), inputs.at) ELSE
    LET n_outputs == VarInt_decode(inputs.rest)
    IN  IF ~n_outputs.ok THEN Failure(OutputCountError(n_outputs.err), -1) ELSE
    LET outputs == DecodeOutputs(n_outputs.rest, n_outputs.val, <<>>)
    IN  IF ~outputs.ok THEN Failure(OutputError(outputs.err), outputs.at) ELSE
        IF LockTimeTooShort(outputs.rest) THEN Failure(<<"LockTimeTooShort">>, -1)
        ELSE
    LET lock_time == get_u32_le(outputs.rest)
    IN  IF lock_time.panic THEN Panic
        ELSE [ok |-> TRUE, panic |-> FALSE,
              val |-> [version |-> version.val,
                       lock_time |-> lock_time.val,
                       inputs |-> inputs.val,
                       outputs |-> outputs.val],
              rest |-> lock_time.rest]

(***************************************************************************)
(* Transaction methods: hashes and identifiers.                            *)
(***************************************************************************)
Transaction_transaction_hash(t) == transaction_hash(encode_raw(t))

\* The method encodes and calls transaction_hash, as transaction_hash does.
Transaction_transaction_hash_rev(t) == transaction_hash(encode_raw(t))

\* Mutant: the input leaves cover the outpoint only.
InputLeaf_without_sequence(input) == sha256d(Outpoint_encode_raw(input.outpoint))

InputLeaf(input) ==
    sha256d(Outpoint_encode_raw(input.outpoint) \o LeBytes(input.sequence, 4))

OutputLeaf(output) == sha256d(Output_encode_raw(output))

\* Mutant: the output root is computed over the input leaves again.
TransactionIdBuf_inputs_twice(t) ==
    LET inputleaves == [i \in 1..Len(t.inputs) |-> InputLeaf(t.inputs[i])]
        in_root == lotus_merkle_root(inputleaves)
    IN  LeBytes(t.version, 4)
            \o in_root[1] \o <<in_root[2]>>
            \o in_root[1] \o <<in_root[2]>>
            \o LeBytes(t.lock_time, 4)

\* Mutant: the input leaves cover the whole serialized input, script included.
TransactionIdBuf_with_script(t) ==
    LET inputleaves == [i \in 1..Len(t.inputs) |-> sha256d(Input_encode_raw(t.inputs[i]))]
        in_root == lotus_merkle_root(inputleaves)
        outputleaves == [j \in 1..Len(t.outputs) |-> OutputLeaf(t.outputs[j])]
        out_root == lotus_merkle_root(outputleaves)
    IN  LeBytes(t.version, 4)
            \o in_root[1] \o <<in_root[2]>>
            \o out_root[1] \o <<out_root[2]>>
            \o LeBytes(t.lock_time, 4)

\* The buffer transaction_id digests.
TransactionIdBuf(t) ==
    LET inputleaves == [i \in 1..Len(t.inputs) |-> InputLeaf(t.inputs[i])]
        in_root == lotus_merkle_root(inputleaves)
        outputleaves == [j \in 1..Len(t.outputs) |-> OutputLeaf(t.outputs[j])]
        out_root == lotus_merkle_root(outputleaves)
    IN  LeBytes(t.version, 4)
            \o in_root[1] \o <<in_root[2]>>
            \o out_root[1] \o <<out_root[2]>>
            \o LeBytes(t.lock_time, 4)

transaction_id(t) == sha256d(TransactionIdBuf(t))

transaction_id_rev(t) == Reverse(transaction_id(t))

(***************************************************************************)
(* Transaction::signature_hash.                                            *)
(***************************************************************************)
UNIT_HASH == <<1>> \o Repeat(0, 31)

\* Mutant: the short-circuit is taken only for an input that exists.
SingleBug_in_range(t, input_index, sig_hash_type) ==
    /\ sig_hash_type = "Single"
    /\ input_index >= Len(t.outputs)
    /\ input_index < Len(t.inputs)

\* Mutant: the short-circuit is taken for every sighash type.
SingleBug_any_type(t, input_index, sig_hash_type) ==
    input_index >= Len(t.outputs)

\* The Single short-circuit.
SingleBug(t, input_index, sig_hash_type) ==
    sig_hash_type = "Single" /\ input_index >= Len(t.outputs)

\* Mutant: the single input keeps its own script.
SigHashInputs_script_kept(t, input_index, script_pubkey, sig_hash_type) ==
    IF is_anyone_can_pay(sig_hash_type)
    THEN IF input_index >= Len(t.inputs) THEN [ok |-> FALSE, val |-> <<>>]
         ELSE [ok |-> TRUE,
               val |-> <<[outpoint |-> t.inputs[input_index + 1].outpoint,
                          script |-> t.inputs[input_index + 1].script,
                          sequence |-> t.inputs[input_index + 1].sequence]>>]
    ELSE [ok |-> TRUE,
          val |-> [local \in 1..Len(t.inputs) |->
                    [outpoint |-> t.inputs[local].outpoint,
                     sequence |-> IF local - 1 # input_index
                                     /\ sig_hash_type \in {"Single", "None"}
                                  THEN 0 ELSE t.inputs[local].sequence,
                     script |-> IF local - 1 = input_index
                                THEN script_pubkey ELSE Script_default]]]

\* Mutant: the sequence of every other input is zeroed for all types.
SigHashInputs_sequence_zeroed(t, input_index, script_pubkey, sig_hash_type) ==
    IF is_anyone_can_pay(sig_hash_type)
    THEN IF input_index >= Len(t.inputs) THEN [ok |-> FALSE, val |-> <<>>]
         ELSE [ok |-> TRUE,
               val |-> <<[outpoint |-> t.inputs[input_index + 1].outpoint,
                          script |-> script_pubkey,
                          sequence |-> t.inputs[input_index + 1].sequence]>>]
    ELSE [ok |-> TRUE,
          val |-> [local \in 1..Len(t.inputs) |->
                    [outpoint |-> t.inputs[local].outpoint,
                     sequence |-> IF local - 1 # input_index
                                  THEN 0 ELSE t.inputs[local].sequence,
                     script |-> IF local - 1 = input_index
                                THEN script_pubkey ELSE Script_default]]]

\* The transient input list; ok is FALSE for the early return of `?`.
SigHashInputs(t, input_index, script_pubkey, sig_hash_type) ==
    IF is_anyone_can_pay(sig_hash_type)
    THEN IF input_index >= Len(t.inputs) THEN [ok |-> FALSE, val |-> <<>>]
         ELSE [ok |-> TRUE,
               val |-> <<[outpoint |-> t.inputs[input_index + 1].outpoint,
                          script |-> script_pubkey,
                          sequence |-> t.inputs[input_index + 1].sequence]>>]
    ELSE [ok |-> TRUE,
          val |-> [local \in 1..Len(t.inputs) |->
                    [outpoint |-> t.inputs[local].outpoint,
                     sequence |-> IF local - 1 # input_index
                                     /\ sig_hash_type \in {"Single", "None"}
                                  THEN 0 ELSE t.inputs[local].sequence,
                     script |-> IF local - 1 = input_index
                                THEN script_pubkey ELSE Script_default]]]

\* Mutant: the None arm keeps the outputs.
SigHashOutputs_none_keeps_outputs(t, input_index, sig_hash_type) ==
    CASE sig_hash_type = "All" -> [ok |-> TRUE, val |-> t.outputs]
      [] sig_hash_type = "Single" ->
            [ok |-> TRUE,
             val |-> [local \in 1..Min(input_index + 1, Len(t.outputs)) |->
                        IF local - 1 = input_index
                        THEN t.outputs[local] ELSE Output_default]]
      [] sig_hash_type = "None" -> [ok |-> TRUE, val |-> t.outputs]
      [] OTHER -> [ok |-> FALSE, val |-> <<>>]

\* Mutant: the Single arm does not drop the outputs after input_index.
SigHashOutputs_single_untruncated(t, input_index, sig_hash_type) ==
    CASE sig_hash_type = "All" -> [ok |-> TRUE, val |-> t.outputs]
      [] sig_hash_type = "Single" ->
            [ok |-> TRUE,
             val |-> [local \in 1..Len(t.outputs) |->
                        IF local - 1 = input_index
                        THEN t.outputs[local] ELSE Output_default]]
      [] sig_hash_type = "None" -> [ok |-> TRUE, val |-> <<>>]
      [] OTHER -> [ok |-> FALSE, val |-> <<>>]

\* The transient output list; ok is FALSE for the unreachable!() arm.
SigHashOutputs(t, input_index, sig_hash_type) ==
    CASE sig_hash_type = "All" -> [ok |-> TRUE, val |-> t.outputs]
      [] sig_hash_type = "Single" ->
            [ok |-> TRUE,
             val |-> [local \in 1..Min(input_index + 1, Len(t.outputs)) |->
                        IF local - 1 = input_index
                        THEN t.outputs[local] ELSE Output_default]]
      [] sig_hash_type = "None" -> [ok |-> TRUE, val |-> <<>>]
      [] OTHER -> [ok |-> FALSE, val |-> <<>>]

\* Mutant: the sighash type value is written before the serialization.
signature_hash_type_first(t, input_index, script_pubkey, sig_hash_type) ==
    IF SingleBug(t, input_index, sig_hash_type)
    THEN [kind |-> "Some", digest |-> UNIT_HASH,
          built |-> "nothing", inputs |-> <<>>, outputs |-> <<>>]
    ELSE
    LET inputs == SigHashInputs(t, input_index, script_pubkey, sig_hash_type)
    IN  IF ~inputs.ok
        THEN [kind |-> "None", digest |-> <<>>,
              built |-> "nothing", inputs |-> <<>>, outputs |-> <<>>]
        ELSE
    LET outputs == SigHashOutputs(t, input_index, sig_hash_type)
    IN  IF ~outputs.ok
        THEN [kind |-> "panic", digest |-> <<>>,
              built |-> "inputs", inputs |-> inputs.val, outputs |-> <<>>]
        ELSE
    LET transaction == [version |-> t.version, lock_time |-> t.lock_time,
                        inputs |-> inputs.val, outputs |-> outputs.val]
        raw_sig_hash == LeBytes(SigHashValue(sig_hash_type), 4)
        raw_transaction == raw_sig_hash \o encode_raw(transaction)
    IN  [kind |-> "Some", digest |-> SHA256(SHA256(raw_transaction)),
         built |-> "inputs_outputs", inputs |-> inputs.val, outputs |-> outputs.val]

\* Result: kind is "Some" (with the digest), "None" or "panic".  The record
\* also keeps the transient lists the call built before it returned:
\* built is "nothing", "inputs" or "inputs_outputs".
signature_hash(t, input_index, script_pubkey, sig_hash_type) ==
    IF SingleBug(t, input_index, sig_hash_type)
    THEN [kind |-> "Some", digest |-> UNIT_HASH,
          built |-> "nothing", inputs |-> <<>>, outputs |-> <<>>]
    ELSE
    LET inputs == SigHashInputs(t, input_index, script_pubkey, sig_hash_type)
    IN  IF ~inputs.ok
        THEN [kind |-> "None", digest |-> <<>>,
              built |-> "nothing", inputs |-> <<>>, outputs |-> <<>>]
        ELSE
    LET outputs == SigHashOutputs(t, input_index, sig_hash_type)
    IN  IF ~outputs.ok
        THEN [kind |-> "panic", digest |-> <<>>,
              built |-> "inputs", inputs |-> inputs.val, outputs |-> <<>>]
        ELSE
    LET transaction == [version |-> t.version, lock_time |-> t.lock_time,
                        inputs |-> inputs.val, outputs |-> outputs.val]
        raw_sig_hash == LeBytes(SigHashValue(sig_hash_type), 4)
        raw_transaction == encode_raw(transaction) \o raw_sig_hash
    IN  [kind |-> "Some", digest |-> SHA256(SHA256(raw_transaction)),
         built |-> "inputs_outputs", inputs |-> inputs.val, outputs |-> outputs.val]

(***************************************************************************)
(* The transactions a caller holds and the buffers it hands to decode.     *)
(***************************************************************************)
SeqsUpTo(S, n) == UNION {[1..k -> S] : k \in 0..n}

TxIdA == [k \in 1..32 |-> k]

TxIdB == [k \in 1..32 |-> 64 + k]

InputChoices ==
    { [outpoint |-> [tx_id |-> TxIdA, vout |-> 0], script |-> <<>>, sequence |-> 16909060],
      [outpoint |-> [tx_id |-> TxIdA, vout |-> 0], script |-> <<81>>, sequence |-> 16909060],
      [outpoint |-> [tx_id |-> TxIdB, vout |-> 1], script |-> <<>>, sequence |-> 2147483647] }

OutputChoices ==
    { Output_default,
      [value |-> 1000000, script |-> <<106>>] }

Headers == {[version |-> 1, lock_time |-> 0], [version |-> 2, lock_time |-> 500000]}

Transactions ==
    { [version |-> h.version, inputs |-> ins, outputs |-> outs, lock_time |-> h.lock_time] :
        h \in Headers,
        ins \in SeqsUpTo(InputChoices, MaxInputs),
        outs \in SeqsUpTo(OutputChoices, MaxOutputs) }

ScriptPubkeys == {<<>>, <<118, 172>>}

NoResult == [op |-> "none"]

Init ==
    /\ tx \in Transactions
    /\ res = NoResult

(***************************************************************************)
(* Hashing operations on the held transaction.                             *)
(***************************************************************************)
DoTransactionHash ==
    /\ res = NoResult
    /\ res' = [op |-> "transaction_hash", out |-> Transaction_transaction_hash(tx)]
    /\ UNCHANGED tx

DoTransactionHashRev ==
    /\ res = NoResult
    /\ res' = [op |-> "transaction_hash_rev", out |-> Transaction_transaction_hash_rev(tx)]
    /\ UNCHANGED tx

DoTransactionId ==
    /\ res = NoResult
    /\ res' = [op |-> "transaction_id", out |-> transaction_id(tx)]
    /\ UNCHANGED tx

DoTransactionIdRev ==
    /\ res = NoResult
    /\ res' = [op |-> "transaction_id_rev", out |-> transaction_id_rev(tx)]
    /\ UNCHANGED tx

\* SignatureHashType::is_anyone_can_pay on any of the six variants.
DoIsAnyoneCanPay ==
    /\ res = NoResult
    /\ \E sig_hash_type \in SignatureHashType :
            res' = [op |-> "is_anyone_can_pay",
                    sig_hash_type |-> sig_hash_type,
                    out |-> is_anyone_can_pay(sig_hash_type)]
    /\ UNCHANGED tx

\* The cast `sig_hash_type as u32` of any of the six variants.
DoSigHashValue ==
    /\ res = NoResult
    /\ \E sig_hash_type \in SignatureHashType :
            res' = [op |-> "as_u32",
                    sig_hash_type |-> sig_hash_type,
                    out |-> SigHashValue(sig_hash_type)]
    /\ UNCHANGED tx

\* Mutant: the transient lists are written into the transaction itself.
DoSignatureHash_in_place ==
    /\ res = NoResult
    /\ \E input_index \in 0..MaxInputs, script_pubkey \in ScriptPubkeys,
          sig_hash_type \in SignatureHashType :
            LET out == signature_hash(tx, input_index, script_pubkey, sig_hash_type)
            IN  /\ res' = [op |-> "signature_hash",
                           input_index |-> input_index,
                           script_pubkey |-> script_pubkey,
                           sig_hash_type |-> sig_hash_type,
                           out |-> out]
                /\ tx' = IF out.built = "inputs_outputs"
                         THEN [tx EXCEPT !.inputs = out.inputs, !.outputs = out.outputs]
                         ELSE tx

DoSignatureHash ==
    /\ res = NoResult
    /\ \E input_index \in 0..MaxInputs, script_pubkey \in ScriptPubkeys,
          sig_hash_type \in SignatureHashType :
            res' = [op |-> "signature_hash",
                    input_index |-> input_index,
                    script_pubkey |-> script_pubkey,
                    sig_hash_type |-> sig_hash_type,
                    out |-> signature_hash(tx, input_index, script_pubkey, sig_hash_type)]
    /\ UNCHANGED tx

\* The caller drops the result; the next call starts from here.
Return ==
    /\ res # NoResult
    /\ res' = NoResult
    /\ UNCHANGED tx

NextHash ==
    \/ Return
    \/ DoTransactionHash
    \/ DoTransactionHashRev
    \/ DoTransactionId
    \/ DoTransactionIdRev
    \/ DoSignatureHash

SpecHash == Init /\ [][NextHash]_vars

\* The identifiers alone.
NextId ==
    \/ Return
    \/ DoTransactionHash
    \/ DoTransactionId
    \/ DoTransactionIdRev

SpecId == Init /\ [][NextId]_vars

\* The signature-hash interface alone: signature_hash and the two
\* operations of SignatureHashType.
NextSigHash ==
    \/ Return
    \/ DoSignatureHash
    \/ DoIsAnyoneCanPay
    \/ DoSigHashValue

SpecSigHash == Init /\ [][NextSigHash]_vars

(***************************************************************************)
(* Buffers handed to decode.  Each is derived from the encoding of the     *)
(* held transaction: cut at any position, followed by trailing bytes, or   *)
(* with one of its VarInts (a count or a script length) replaced.  The     *)
(* record keeps how the buffer was made.                                   *)
(***************************************************************************)
InputsLen(t, n) == Sum([i \in 1..n |-> Input_encoded_len(t.inputs[i])])

OutputsLen(t, n) == Sum([j \in 1..n |-> Output_encoded_len(t.outputs[j])])

\* 1-based position of a VarInt in encode_raw(t).
InputCountPos == 5

InputScriptPos(t, i) == 5 + InputsLen(t, i - 1) + OutpointLen + 1

OutputCountPos(t) == 5 + InputsLen(t, Len(t.inputs)) + 1

OutputScriptPos(t, j) == OutputCountPos(t) + OutputsLen(t, j - 1) + 8 + 1

FieldPos(t, field, index) ==
    CASE field = "input_count" -> InputCountPos
      [] field = "input_script" -> InputScriptPos(t, index)
      [] field = "output_count" -> OutputCountPos(t)
      [] field = "output_script" -> OutputScriptPos(t, index)

Fields(t) ==
    {<<"input_count", 0>>, <<"output_count", 0>>}
        \cup {<<"input_script", i>> : i \in 1..Len(t.inputs)}
        \cup {<<"output_script", j>> : j \in 1..Len(t.outputs)}

NonMinimalVarInts ==
    {<<253, 1, 0>>, <<254, 1, 0, 0, 0>>, <<255, 1, 0, 0, 0, 0, 0, 0, 0>>}

LargeVarInts ==
    {<<252>>, <<253, 0, 1>>, <<254, 0, 0, 1, 0>>,
     <<255, 255, 255, 255, 255, 255, 255, 255, 255>>}

TrailingBytes == {t \in SeqsUpTo({0, 255}, MaxTrailing) : t # <<>>}

Buffers(t) ==
    LET raw == encode_raw(t)
    IN  {[how |-> "truncate", n |-> n, field |-> "", index |-> 0, varint |-> <<>>,
          bytes |-> SubSeq(raw, 1, n)] : n \in 0..Len(raw)}
        \cup
        {[how |-> "trailing", n |-> Len(raw), field |-> "", index |-> 0, varint |-> <<>>,
          bytes |-> raw \o extra] : extra \in TrailingBytes}
        \cup
        {[how |-> "replace", n |-> 0, field |-> f[1], index |-> f[2], varint |-> c,
          bytes |-> SubSeq(raw, 1, FieldPos(t, f[1], f[2]) - 1) \o c
                        \o Drop(raw, FieldPos(t, f[1], f[2]))] :
            f \in Fields(t), c \in NonMinimalVarInts \cup LargeVarInts}
        \cup
        {[how |-> "replace_cut", n |-> 0, field |-> f[1], index |-> f[2], varint |-> c,
          bytes |-> SubSeq(raw, 1, FieldPos(t, f[1], f[2]) - 1)
                        \o SubSeq(c, 1, Len(c) - 1)] :
            f \in Fields(t), c \in NonMinimalVarInts}

Capacities(t) ==
    LET n == Len(encode_raw(t))
    IN  {0, n \div 2, n - 1, n, n + 1}

(***************************************************************************)
(* Codec operations on the held transaction.                               *)
(***************************************************************************)
DoEncodedLen ==
    /\ res = NoResult
    /\ res' = [op |-> "encoded_len", out |-> encoded_len(tx)]
    /\ UNCHANGED tx

DoEncode ==
    /\ res = NoResult
    /\ \E cap \in Capacities(tx) :
            res' = [op |-> "encode", cap |-> cap, out |-> encode(tx, cap)]
    /\ UNCHANGED tx

DoDecode ==
    /\ res = NoResult
    /\ \E b \in Buffers(tx) :
            res' = [op |-> "decode", buf |-> b, out |-> decode(b.bytes)]
    /\ UNCHANGED tx

NextCodec ==
    \/ Return
    \/ DoEncodedLen
    \/ DoEncode
    \/ DoDecode

SpecCodec == Init /\ [][NextCodec]_vars

(***************************************************************************)
(* The operations that take the transaction by shared reference and build  *)
(* something from it, in any order.                                        *)
(***************************************************************************)
NextFrame ==
    \/ Return
    \/ DoSignatureHash
    \/ DoTransactionHash
    \/ DoTransactionId
    \/ DoEncodedLen
    \/ DoEncode

SpecFrame == Init /\ [][NextFrame]_vars

(***************************************************************************)
(* HmacScheme: the bearer-token scheme.  A token is a string, modelled as   *)
(* the sequence of its characters.  base64 is the URL-safe alphabet         *)
(* without padding; HMAC-SHA256 is the HMAC construction over SHA256.       *)
(***************************************************************************)
UrlSafe ==
    <<"A", "B", "C", "D", "E", "F", "G", "H", "I", "J", "K", "L", "M",
      "N", "O", "P", "Q", "R", "S", "T", "U", "V", "W", "X", "Y", "Z",
      "a", "b", "c", "d", "e", "f", "g", "h", "i", "j", "k", "l", "m",
      "n", "o", "p", "q", "r", "s", "t", "u", "v", "w", "x", "y", "z",
      "0", "1", "2", "3", "4", "5", "6", "7", "8", "9", "-", "_">>

UrlSafeChars == {UrlSafe[k] : k \in 1..64}

\* The 2, 3 or 4 six-bit symbols of a chunk of 1, 2 or 3 bytes.
Base64Chunk(bs) ==
    LET n == bs[1] * 65536
                + (IF Len(bs) >= 2 THEN bs[2] ELSE 0) * 256
                + (IF Len(bs) >= 3 THEN bs[3] ELSE 0)
    IN  SubSeq(<<n \div 262144, (n \div 4096) % 64, (n \div 64) % 64, n % 64>>,
               1, Len(bs) + 1)

RECURSIVE Base64Symbols(_)
Base64Symbols(bytes) ==
    IF bytes = <<>> THEN <<>>
    ELSE Base64Chunk(Take(bytes, 3)) \o Base64Symbols(Drop(bytes, 3))

\* base64::encode_config(bytes, Config::new(CharacterSet::UrlSafe, false)).
base64_encode_config(bytes) ==
    LET symbols == Base64Symbols(bytes)
    IN  [k \in 1..Len(symbols) |-> UrlSafe[symbols[k] + 1]]

SymbolOf(c) == CHOOSE v \in 0..63 : UrlSafe[v + 1] = c

\* The 1, 2 or 3 bytes of a chunk of 2, 3 or 4 symbols, and the bits of the
\* last symbol that belong to no byte.
Base64Quad(ss) ==
    LET n == ss[1] * 262144 + ss[2] * 4096
                + (IF Len(ss) >= 3 THEN ss[3] ELSE 0) * 64
                + (IF Len(ss) >= 4 THEN ss[4] ELSE 0)
    IN  [bytes |-> SubSeq(<<n \div 65536, (n \div 256) % 256, n % 256>>, 1, Len(ss) - 1),
         extra |-> IF Len(ss) = 2 THEN ss[2] % 16
                   ELSE IF Len(ss) = 3 THEN ss[3] % 4
                   ELSE 0]

RECURSIVE Base64Bytes(_)
Base64Bytes(symbols) ==
    IF symbols = <<>> THEN [bytes |-> <<>>, extra |-> 0]
    ELSE LET head == Base64Quad(Take(symbols, 4))
             tail == Base64Bytes(Drop(symbols, 4))
         IN  [bytes |-> head.bytes \o tail.bytes, extra |-> head.extra + tail.extra]

\* base64::decode_config(token, Config::new(CharacterSet::UrlSafe, false)):
\* a character outside the alphabet, a length that no byte string encodes
\* to, or non-zero bits after the last byte make it fail.  Tokens ending in
\* "=" padding are not among the tokens presented below.
base64_decode_config(token) ==
    IF \E k \in 1..Len(token) : token[k] \notin UrlSafeChars
    THEN [ok |-> FALSE, err |-> "InvalidByte", val |-> <<>>]
    ELSE IF Len(token) % 4 = 1
    THEN [ok |-> FALSE, err |-> "InvalidLength", val |-> <<>>]
    ELSE LET decoded == Base64Bytes([k \in 1..Len(token) |-> SymbolOf(token[k])])
         IN  IF decoded.extra # 0
             THEN [ok |-> FALSE, err |-> "InvalidLastSymbol", val |-> <<>>]
             ELSE [ok |-> TRUE, err |-> "", val |-> decoded.bytes]

\* Bitwise exclusive or of two n-bit numbers.
RECURSIVE Xor(_, _, _)
Xor(a, b, n) ==
    IF n = 0 THEN 0 ELSE ((a + b) % 2) + 2 * Xor(a \div 2, b \div 2, n - 1)

\* hmac::Key::new(hmac::HMAC_SHA256, key): the key as one 64-byte block.
HmacScheme_new(key) ==
    LET short == IF Len(key) > 64 THEN SHA256(key) ELSE key
    IN  [k \in 1..64 |-> IF k <= Len(short) THEN short[k] ELSE 0]

\* hmac::sign(&key, data).
hmac_sign(key, data) ==
    SHA256([k \in 1..64 |-> Xor(key[k], 92, 8)]
            \o SHA256([k \in 1..64 |-> Xor(key[k], 54, 8)] \o data))

\* hmac::verify(&key, data, tag): the tag is compared with the computed one.
hmac_verify(key, data, tag) == tag = hmac_sign(key, data)

\* Mutant: only the first half of the tag goes into the token.
construct_token_half_tag(key, data) ==
    base64_encode_config(Take(hmac_sign(key, data), 16))

construct_token(key, data) == base64_encode_config(hmac_sign(key, data))

\* Mutant: a token that does not decode is reported as Invalid.
validate_token_decode_as_invalid(key, data, token) ==
    LET tag == base64_decode_config(token)
    IN  IF ~tag.ok
        THEN [ok |-> FALSE, err |-> <<"Invalid">>, verified |-> FALSE]
        ELSE IF hmac_verify(key, data, tag.val)
        THEN [ok |-> TRUE, err |-> <<>>, verified |-> TRUE]
        ELSE [ok |-> FALSE, err |-> <<"Invalid">>, verified |-> TRUE]

\* The result is Ok(()) or Err(err); verified records whether hmac::verify
\* was reached.
validate_token(key, data, token) ==
    LET tag == base64_decode_config(token)
    IN  IF ~tag.ok
        THEN [ok |-> FALSE, err |-> <<"Base64", tag.err>>, verified |-> FALSE]
        ELSE IF hmac_verify(key, data, tag.val)
        THEN [ok |-> TRUE, err |-> <<>>, verified |-> TRUE]
        ELSE [ok |-> FALSE, err |-> <<"Invalid">>, verified |-> TRUE]

\* The secrets of the schemes, the payloads, and the tokens presented to a
\* scheme: tokens constructed by any scheme for any payload, and the token
\* of this scheme and payload cut short, extended, or with one character
\* replaced.
SecretKeys == {<<1>>, <<2, 3>>, <<1, 0>>}

Payloads == {<<>>, <<7>>, <<7, 8>>}

Replace(token, k, c) == [token EXCEPT ![k] = c]

Tokens(key, data) ==
    LET own == construct_token(HmacScheme_new(key), data)
        last == SymbolOf(own[Len(own)])
    IN  {[how |-> "constructed", key |-> k, data |-> d,
          token |-> construct_token(HmacScheme_new(k), d)] :
            k \in SecretKeys, d \in Payloads}
        \cup
        {[how |-> "cut", key |-> key, data |-> data, token |-> Take(own, n)] :
            n \in {0, Len(own) - 3, Len(own) - 2, Len(own) - 1}}
        \cup
        {[how |-> "extended", key |-> key, data |-> data, token |-> own \o <<c>>] :
            c \in {"A", "-"}}
        \cup
        {[how |-> "replaced", key |-> key, data |-> data, token |-> Replace(own, k, c)] :
            k \in {1, Len(own)}, c \in {"+", "/", " ", "."}}
        \cup
        {[how |-> "replaced", key |-> key, data |-> data,
          token |-> Replace(own, Len(own), UrlSafe[((last + d) % 64) + 1])] :
            d \in {1, 2, 4}}
        \cup
        {[how |-> "replaced", key |-> key, data |-> data,
          token |-> Replace(own, 1, UrlSafe[((SymbolOf(own[1]) + 1) % 64) + 1])]}

\* The transaction a caller holds while it uses the services around the
\* codec: Transaction::default().
Transaction_default == [version |-> 0, inputs |-> <<>>, outputs |-> <<>>, lock_time |-> 0]

InitDefault ==
    /\ tx = Transaction_default
    /\ res = NoResult

DoConstructToken ==
    /\ res = NoResult
    /\ \E key \in SecretKeys, data \in Payloads :
            res' = [op |-> "construct_token", key |-> key, data |-> data,
                    out |-> construct_token(HmacScheme_new(key), data)]
    /\ UNCHANGED tx

DoValidateToken ==
    /\ res = NoResult
    /\ \E key \in SecretKeys, data \in Payloads :
        \E made \in Tokens(key, data) :
            res' = [op |-> "validate_token", key |-> key, data |-> data,
                    made |-> made, token |-> made.token,
                    out |-> validate_token(HmacScheme_new(key), data, made.token)]
    /\ UNCHANGED tx

NextToken ==
    \/ Return
    \/ DoConstructToken
    \/ DoValidateToken

SpecToken == InitDefault /\ [][NextToken]_vars

(***************************************************************************)
(* BitcoinBroadcaster: the raw transaction is sent as the hex parameter of *)
(* a JSON-RPC sendrawtransaction request; the exchange with the node is    *)
(* what the JSON-RPC client returns for that request.                      *)
(***************************************************************************)
HexDigits ==
    <<"0", "1", "2", "3", "4", "5", "6", "7", "8", "9", "a", "b", "c", "d", "e", "f">>

\* hex::encode(raw_tx): two lowercase digits per byte, the high one first.
hex_encode(bytes) ==
    [k \in 1..(2 * Len(bytes)) |->
        IF k % 2 = 1 THEN HexDigits[(bytes[(k + 1) \div 2] \div 16) + 1]
        ELSE HexDigits[(bytes[k \div 2] % 16) + 1]]

\* build_request().method("sendrawtransaction").params(hex::encode(raw_tx)).
BuildRequest(raw_tx) == [method |-> "sendrawtransaction", params |-> hex_encode(raw_tx)]

\* What json_client.call(req) resolves to: a transport error, or a response
\* whose result and error members are each present or not; a result that is
\* present is a JSON string or some other JSON value.
Exchanges ==
    {[transport |-> t, has_result |-> FALSE, result_json |-> "", result |-> "",
      has_error |-> FALSE, error |-> ""] : t \in {"connection", "http"}}
        \cup
    {[transport |-> "ok", has_result |-> r[1], result_json |-> r[2], result |-> r[3],
      has_error |-> e[1], error |-> e[2]] :
        r \in {<<FALSE, "", "">>, <<TRUE, "string", "txid">>, <<TRUE, "number", "7">>},
        e \in {<<FALSE, "">>, <<TRUE, "missing inputs">>, <<TRUE, "already in chain">>}}

\* response.result::<String>(): None without a result member, else the
\* outcome of deserializing it as a String.
Response_result(exchange) ==
    IF ~exchange.has_result THEN [some |-> FALSE, ok |-> FALSE, val |-> ""]
    ELSE IF exchange.result_json = "string"
    THEN [some |-> TRUE, ok |-> TRUE, val |-> exchange.result]
    ELSE [some |-> TRUE, ok |-> FALSE, val |-> "invalid type"]

\* Mutant: an error member of the response takes precedence over its result.
BitcoinBroadcaster_call_error_first(exchange) ==
    IF exchange.transport # "ok"
    THEN [ok |-> FALSE, val |-> "", err |-> <<"Client", exchange.transport>>]
    ELSE IF exchange.has_error
    THEN [ok |-> FALSE, val |-> "", err |-> <<"Rpc", exchange.error>>]
    ELSE LET result == Response_result(exchange)
         IN  IF result.some
             THEN IF result.ok THEN [ok |-> TRUE, val |-> result.val, err |-> <<>>]
                  ELSE [ok |-> FALSE, val |-> "", err |-> <<"Json", result.val>>]
             ELSE [ok |-> FALSE, val |-> "", err |-> <<"EmptyJson">>]

\* The closure mapped over the client's future in BitcoinBroadcaster::call.
BitcoinBroadcaster_call(exchange) ==
    IF exchange.transport # "ok"
    THEN [ok |-> FALSE, val |-> "", err |-> <<"Client", exchange.transport>>]
    ELSE LET result == Response_result(exchange)
         IN  IF result.some
             THEN IF result.ok THEN [ok |-> TRUE, val |-> result.val, err |-> <<>>]
                  ELSE [ok |-> FALSE, val |-> "", err |-> <<"Json", result.val>>]
             ELSE IF exchange.has_error
             THEN [ok |-> FALSE, val |-> "", err |-> <<"Rpc", exchange.error>>]
             ELSE [ok |-> FALSE, val |-> "", err |-> <<"EmptyJson">>]

\* BitcoinBroadcaster::poll_ready: the client's readiness, its error wrapped.
BitcoinBroadcaster_poll_ready(ready) ==
    IF ready = "pending" THEN [poll |-> "Pending", err |-> <<>>]
    ELSE IF ready = "ok" THEN [poll |-> "Ready", err |-> <<>>]
    ELSE [poll |-> "Ready", err |-> <<"Client", ready>>]

DoPollReady ==
    /\ res = NoResult
    /\ \E ready \in {"pending", "ok", "connection"} :
            res' = [op |-> "poll_ready", ready |-> ready,
                    out |-> BitcoinBroadcaster_poll_ready(ready)]
    /\ UNCHANGED tx

\* call(raw_tx) on the encoding of the held transaction, driven to its end.
DoBroadcast ==
    /\ res = NoResult
    /\ \E exchange \in Exchanges :
            res' = [op |-> "call",
                    raw_tx |-> encode_raw(tx),
                    request |-> BuildRequest(encode_raw(tx)),
                    exchange |-> exchange,
                    out |-> BitcoinBroadcaster_call(exchange)]
    /\ UNCHANGED tx

NextBroadcast ==
    \/ Return
    \/ DoPollReady
    \/ DoBroadcast

SpecBroadcast == Init /\ [][NextBroadcast]_vars

(***************************************************************************)
(* Keyserver client: get_peers, get_metadata and put_metadata format a     *)
(* path from keyserver_url, parse it as a Uri and hand the request to a    *)
(* clone of the inner service through oneshot.  Strings are sequences of   *)
(* characters.                                                             *)
(***************************************************************************)
PeersSuffix == <<"/", "p", "e", "e", "r", "s">>

KeysInfix == <<"/", "k", "e", "y", "s", "/">>

\* format!("{}/peers", keyserver_url)
PeersPath(keyserver_url) == keyserver_url \o PeersSuffix

\* format!("{}/keys/{}", keyserver_url, address)
KeysPath(keyserver_url, address) == keyserver_url \o KeysInfix \o address

\* The first position at or after 'from' holding c, or Len(str) + 1.
RECURSIVE Find(_, _, _)
Find(str, c, from) ==
    IF from > Len(str) THEN Len(str) + 1
    ELSE IF str[from] = c THEN from
    ELSE Find(str, c, from + 1)

\* The end of a scheme: the position of the first ':' when it comes before
\* any '/', is not the first character and is followed by "//"; else 0.
SchemeEnd(str) ==
    LET colon == Find(str, ":", 1)
        slash == Find(str, "/", 1)
    IN  IF /\ colon > 1
           /\ colon < slash
           /\ colon + 2 <= Len(str)
           /\ str[colon + 1] = "/"
           /\ str[colon + 2] = "/"
        THEN colon
        ELSE 0

HasInvalidChar(str) == \E k \in 1..Len(str) : str[k] = " "

UriErr(kind) == [ok |-> FALSE, err |-> kind, val |-> [scheme |-> <<>>, authority |-> <<>>, path |-> <<>>]]

\* full_path.parse::<Uri>(): a path alone, or scheme://authority/path; an
\* authority followed by a path needs a scheme, and a scheme an authority.
Uri_parse(str) ==
    IF Len(str) = 0 THEN UriErr("Empty")
    ELSE IF str[1] = "/"
    THEN IF HasInvalidChar(str) THEN UriErr("InvalidUriChar")
         ELSE [ok |-> TRUE, err |-> "", val |-> [scheme |-> <<>>, authority |-> <<>>, path |-> str]]
    ELSE LET colon == SchemeEnd(str)
             start == IF colon = 0 THEN 1 ELSE colon + 3
             stop == Find(str, "/", start)
             authority == SubSeq(str, start, stop - 1)
             path == SubSeq(str, stop, Len(str))
         IN  IF HasInvalidChar(authority) THEN UriErr("InvalidUriChar")
             ELSE IF colon = 0
             THEN IF stop <= Len(str) THEN UriErr("InvalidFormat")
                  ELSE [ok |-> TRUE, err |-> "",
                        val |-> [scheme |-> <<>>, authority |-> authority, path |-> <<>>]]
             ELSE IF Len(authority) = 0 THEN UriErr("InvalidFormat")
             ELSE IF HasInvalidChar(path) THEN UriErr("InvalidUriChar")
             ELSE [ok |-> TRUE, err |-> "",
                   val |-> [scheme |-> SubSeq(str, 1, colon - 1),
                            authority |-> authority, path |-> path]]

\* How the inner service behaves for one request: its readiness, and what
\* its call resolves to once ready.
InnerOutcomes ==
    {[ready |-> "err", call |-> "", error |-> "unavailable"],
     [ready |-> "ok", call |-> "ok", error |-> ""],
     [ready |-> "ok", call |-> "err", error |-> "status"],
     [ready |-> "ok", call |-> "err", error |-> "timeout"]}

\* oneshot(request) on a service: wait for readiness, then one call; an
\* error of either is the service's error.  'received' is what the service
\* was called with.
oneshot(inner, request, response) ==
    IF inner.ready # "ok"
    THEN [ok |-> FALSE, val |-> "", err |-> inner.error, received |-> <<>>]
    ELSE IF inner.call = "ok"
    THEN [ok |-> TRUE, val |-> response, err |-> "", received |-> <<request>>]
    ELSE [ok |-> FALSE, val |-> "", err |-> inner.error, received |-> <<request>>]

\* Mutant: the request is handed to the service before the path is parsed.
KeyserverCall_invoke_first(full_path, body, inner, response) ==
    LET parsed == Uri_parse(full_path)
        sent == oneshot(inner, [uri |-> parsed.val, body |-> body], response)
    IN  IF ~parsed.ok
        THEN [out |-> [ok |-> FALSE, val |-> "", err |-> <<"Uri", parsed.err>>],
              clones |-> 1, oneshots |-> 1, received |-> sent.received]
        ELSE [out |-> [ok |-> sent.ok, val |-> sent.val,
                       err |-> IF sent.ok THEN <<>> ELSE <<"Error", sent.err>>],
              clones |-> 1, oneshots |-> 1, received |-> sent.received]

\* The body shared by the three operations: parse, build the request,
\* self.clone().oneshot(request).await.map_err(KeyserverError::Error).
KeyserverCall(full_path, body, inner, response) ==
    LET parsed == Uri_parse(full_path)
    IN  IF ~parsed.ok
        THEN [out |-> [ok |-> FALSE, val |-> "", err |-> <<"Uri", parsed.err>>],
              clones |-> 0, oneshots |-> 0, received |-> <<>>]
        ELSE LET sent == oneshot(inner, [uri |-> parsed.val, body |-> body], response)
             IN  [out |-> [ok |-> sent.ok, val |-> sent.val,
                           err |-> IF sent.ok THEN <<>> ELSE <<"Error", sent.err>>],
                  clones |-> 1, oneshots |-> 1, received |-> sent.received]

KeyserverUrls ==
    {<<"h", ":", "/", "/", "k">>,
     <<>>,
     <<"k">>,
     <<"h", ":", "/", "/", "k", " ">>,
     <<"h", ":", "/", "/">>}

Addresses == {<<"a">>, <<"a", " ">>, <<"b", "/", "a">>}

BearerTokens == {"token1", "token2"}

Metadatas == {"metadata1", "metadata2"}

NoBody == [token |-> "", metadata |-> ""]

DoGetPeers ==
    /\ res = NoResult
    /\ \E keyserver_url \in KeyserverUrls, inner \in InnerOutcomes :
            LET done == KeyserverCall(PeersPath(keyserver_url),
                                      [kind |-> "GetPeers"] @@ NoBody, inner, "Peers")
            IN  res' = [op |-> "get_peers", keyserver_url |-> keyserver_url,
                        address |-> <<>>, body |-> [kind |-> "GetPeers"] @@ NoBody,
                        inner |-> inner, response |-> "Peers",
                        out |-> done.out, clones |-> done.clones,
                        oneshots |-> done.oneshots, received |-> done.received]
    /\ UNCHANGED tx

DoGetMetadata ==
    /\ res = NoResult
    /\ \E keyserver_url \in KeyserverUrls, address \in Addresses, inner \in InnerOutcomes :
            LET done == KeyserverCall(KeysPath(keyserver_url, address),
                                      [kind |-> "GetMetadata"] @@ NoBody, inner,
                                      "MetadataPackage")
            IN  res' = [op |-> "get_metadata", keyserver_url |-> keyserver_url,
                        address |-> address, body |-> [kind |-> "GetMetadata"] @@ NoBody,
                        inner |-> inner, response |-> "MetadataPackage",
                        out |-> done.out, clones |-> done.clones,
                        oneshots |-> done.oneshots, received |-> done.received]
    /\ UNCHANGED tx

DoPutMetadata ==
    /\ res = NoResult
    /\ \E keyserver_url \in KeyserverUrls, address \in Addresses, inner \in InnerOutcomes,
          token \in BearerTokens, metadata \in Metadatas :
            LET body == [kind |-> "PutMetadata", token |-> token, metadata |-> metadata]
                done == KeyserverCall(KeysPath(keyserver_url, address), body, inner, "()")
            IN  res' = [op |-> "put_metadata", keyserver_url |-> keyserver_url,
                        address |-> address, body |-> body,
                        inner |-> inner, response |-> "()",
                        out |-> done.out, clones |-> done.clones,
                        oneshots |-> done.oneshots, received |-> done.received]
    /\ UNCHANGED tx

NextKeyserver ==
    \/ Return
    \/ DoGetPeers
    \/ DoGetMetadata
    \/ DoPutMetadata

SpecKeyserver == InitDefault /\ [][NextKeyserver]_vars

(***************************************************************************)
(* What decoding each buffer must give, derived from how the buffer was    *)
(* made and from the encoded lengths of the held transaction, without      *)
(* running the decoder.                                                    *)
(***************************************************************************)
\* Index (0-based) of the first input, resp. output, that does not fit in
\* avail bytes.
FirstInputCut(t, avail) ==
    CHOOSE i \in 0..(Len(t.inputs) - 1) :
        InputsLen(t, i) <= avail /\ avail < InputsLen(t, i + 1)

FirstOutputCut(t, avail) ==
    CHOOSE j \in 0..(Len(t.outputs) - 1) :
        OutputsLen(t, j) <= avail /\ avail < OutputsLen(t, j + 1)

\* Error of an input, resp. output, of which only part bytes are present.
CutInputError(part) ==
    IF part < OutpointLen THEN "OutpointTooShort"
    ELSE IF part = OutpointLen THEN "ScriptLengthInvalid"
    ELSE "ScriptTruncated"

CutOutputError(part) ==
    IF part < 8 THEN "ValueTooShort"
    ELSE IF part = 8 THEN "ScriptLengthInvalid"
    ELSE "ScriptTruncated"

ExpectedTruncated(t, n) ==
    LET ins == InputsLen(t, Len(t.inputs))
        outs == OutputsLen(t, Len(t.outputs))
    IN  IF n < 4 THEN [err |-> <<"VersionTooShort">>, at |-> -1]
        ELSE IF n = 4 THEN [err |-> <<"InputCount", "TooShort">>, at |-> -1]
        ELSE IF n < 5 + ins
        THEN LET i == FirstInputCut(t, n - 5)
                 part == n - 5 - InputsLen(t, i)
                 e == IF part >= OutpointLen + Script_encoded_len(t.inputs[i + 1].script)
                      THEN "SequenceTooShort" ELSE CutInputError(part)
             IN  [err |-> <<"Input", e>>, at |-> i]
        ELSE IF n = 5 + ins THEN [err |-> <<"OutputCount", "TooShort">>, at |-> -1]
        ELSE IF n < 6 + ins + outs
        THEN LET j == FirstOutputCut(t, n - 6 - ins)
                 part == n - 6 - ins - OutputsLen(t, j)
             IN  [err |-> <<"Output", CutOutputError(part)>>, at |-> j]
        ELSE IF n < 10 + ins + outs THEN [err |-> <<"LockTimeTooShort">>, at |-> -1]
        ELSE [err |-> <<"Ok">>, at |-> -1]

\* A replaced VarInt: inner is the VarInt error (or "" for a large value).
ExpectedReplaced(t, field, index, inner) ==
    CASE field = "input_count" ->
            IF inner # "" THEN [err |-> <<"InputCount", inner>>, at |-> -1]
            ELSE [err |-> <<"Input", CutInputError(OutputsLen(t, Len(t.outputs)) + 5)>>,
                  at |-> Len(t.inputs)]
      [] field = "output_count" ->
            IF inner # "" THEN [err |-> <<"OutputCount", inner>>, at |-> -1]
            ELSE [err |-> <<"Output", CutOutputError(4)>>, at |-> Len(t.outputs)]
      [] field = "input_script" ->
            [err |-> <<"Input", IF inner # "" THEN "ScriptLengthInvalid" ELSE "ScriptTruncated">>,
             at |-> index - 1]
      [] field = "output_script" ->
            [err |-> <<"Output", IF inner # "" THEN "ScriptLengthInvalid" ELSE "ScriptTruncated">>,
             at |-> index - 1]

Expected(t, b) ==
    CASE b.how = "truncate" -> ExpectedTruncated(t, b.n)
      [] b.how = "trailing" -> [err |-> <<"Ok">>, at |-> -1]
      [] b.how = "replace" ->
            ExpectedReplaced(t, b.field, b.index,
                             IF b.varint \in NonMinimalVarInts THEN "NonMinimal" ELSE "")
      [] b.how = "replace_cut" -> ExpectedReplaced(t, b.field, b.index, "TooShort")

\* Offset in the buffer b of input, resp. output, number at (0-based).
CountLen(b, field) ==
    IF b.how = "replace" /\ b.field = field THEN Len(b.varint) ELSE 1

InputOffset(t, b, at) == 4 + CountLen(b, "input_count") + InputsLen(t, at)

OutputOffset(t, b, at) ==
    4 + CountLen(b, "input_count") + InputsLen(t, Len(t.inputs))
      + CountLen(b, "output_count") + OutputsLen(t, at)

VarIntErrors == {"TooShort", "NonMinimal"}

InputErrors ==
    {"OutpointTooShort", "ScriptLengthInvalid", "ScriptTruncated", "SequenceTooShort"}

OutputErrors == {"ValueTooShort", "ScriptLengthInvalid", "ScriptTruncated"}

DecodeErrors ==
    {<<"VersionTooShort">>, <<"LockTimeTooShort">>}
        \cup {<<"InputCount", e>> : e \in VarIntErrors}
        \cup {<<"OutputCount", e>> : e \in VarIntErrors}
        \cup {<<"Input", e>> : e \in InputErrors}
        \cup {<<"Output", e>> : e \in OutputErrors}

IsDecode == res.op = "decode"

(***************************************************************************)
(* Claims about the codec (checked under SpecCodec).                       *)
(***************************************************************************)
\* C1 (as stated): for every buffer b that decode accepts, encoding the
\* decoded transaction yields exactly b.
C1_RoundTripWholeBuffer ==
    (IsDecode /\ res.out.ok) => encode_raw(res.out.val) = res.buf.bytes

\* C1 (amended): for every buffer b that decode accepts, encoding the decoded
\* transaction yields exactly the bytes of b that decode consumed; what
\* follows the lock_time in b is left over.
C1_RoundTripConsumed ==
    (IsDecode /\ res.out.ok) => encode_raw(res.out.val) \o res.out.rest = res.buf.bytes

C1_Witness ==
    /\ IsDecode
    /\ res.out.ok
    /\ Len(res.out.val.inputs) >= 1
    /\ Len(res.out.val.outputs) >= 1
    /\ res.out.rest = <<>>

\* C2: encoded_len(t) is 4 + varint_len(#inputs) + the inputs' encoded
\* lengths + varint_len(#outputs) + the outputs' encoded lengths + 4, and is
\* the number of bytes encode_raw(t) writes.
C2_LengthAccuracy ==
    res.op = "encoded_len" =>
        /\ res.out = 4 + VarInt_encoded_len(Len(tx.inputs)) + InputsLen(tx, Len(tx.inputs))
                       + VarInt_encoded_len(Len(tx.outputs)) + OutputsLen(tx, Len(tx.outputs))
                       + 4
        /\ res.out = Len(encode_raw(tx))

C2_Witness ==
    /\ res.op = "encoded_len"
    /\ Len(tx.inputs) >= 1
    /\ Len(tx.outputs) >= 1
    /\ tx.inputs[1].script # <<>>

\* C3: encode into a destination whose remaining capacity is smaller than
\* the encoding of t returns an error and writes nothing.
C3_TruncationSafety ==
    (res.op = "encode" /\ res.cap < Len(encode_raw(tx))) =>
        /\ ~res.out.ok
        /\ res.out.err = "InsufficientCapacity"
        /\ res.out.written = <<>>
        /\ ~res.out.panicked

C3_Witness ==
    /\ res.op = "encode"
    /\ res.cap > 0
    /\ res.cap < encoded_len(tx)
    /\ ~res.out.ok

\* C4: decode is total: on every buffer it returns Ok or one of the
\* DecodeError variants, never panics, and what it leaves is the end of the
\* buffer it was given.
C4_DecodeTotal ==
    IsDecode =>
        /\ ~res.out.panic
        /\ res.out.ok \/ res.out.err \in DecodeErrors
        /\ res.out.ok =>
            /\ Len(res.out.rest) <= Len(res.buf.bytes)
            /\ res.out.rest = Drop(res.buf.bytes, Len(res.buf.bytes) - Len(res.out.rest))

C4_Witness ==
    /\ IsDecode
    /\ res.buf.how = "replace"
    /\ res.buf.field = "input_count"
    /\ res.buf.varint = <<255, 255, 255, 255, 255, 255, 255, 255, 255>>
    /\ ~res.out.ok
    /\ ~res.out.panic

\* C5: decode reports the first stage that fails in wire order, with the
\* error the failing element produced, and succeeds only if no stage fails.
C5_FirstFailingStage ==
    IsDecode =>
        LET want == Expected(tx, res.buf)
        IN  /\ res.out.ok <=> want.err = <<"Ok">>
            /\ ~res.out.ok => res.out.err = want.err

C5_Witness ==
    /\ IsDecode
    /\ res.buf.how = "truncate"
    /\ ~res.out.ok
    /\ res.out.err = <<"Output", "ScriptTruncated">>

C21_DecodeInvertsEncode ==
    (IsDecode /\ res.buf.bytes = encode_raw(tx)) =>
        /\ res.out.ok
        /\ res.out.rest = <<>>
        /\ res.out.val = tx
        /\ Len(res.out.val.inputs) = Len(tx.inputs)
        /\ \A i \in 1..Len(tx.inputs) : res.out.val.inputs[i] = tx.inputs[i]
        /\ Len(res.out.val.outputs) = Len(tx.outputs)
        /\ \A j \in 1..Len(tx.outputs) : res.out.val.outputs[j] = tx.outputs[j]

C21_Witness ==
    /\ IsDecode
    /\ res.buf.bytes = encode_raw(tx)
    /\ Len(tx.inputs) = 2
    /\ tx.inputs[1] # tx.inputs[2]
    /\ Len(tx.outputs) = 2
    /\ tx.outputs[1] # tx.outputs[2]
    /\ res.out.ok

\* C27: a successful decode consumes exactly encoded_len(t) bytes of the
\* returned transaction t, and they are version, input count, inputs,
\* output count, outputs, lock_time in this order; the bytes after the
\* lock_time are left in the buffer, and a buffer with such bytes decodes.
C27_ConsumesEncodedLen ==
    /\ (IsDecode /\ res.out.ok) =>
        LET t == res.out.val
            used == Len(res.buf.bytes) - Len(res.out.rest)
        IN  /\ used = encoded_len(t)
            /\ res.out.rest = Drop(res.buf.bytes, encoded_len(t))
            /\ SubSeq(res.buf.bytes, 1, used) =
                    LeBytes(t.version, 4)
                        \o VarInt_encode_raw(Len(t.inputs))
                        \o Concat([i \in 1..Len(t.inputs) |-> Input_encode_raw(t.inputs[i])])
                        \o VarInt_encode_raw(Len(t.outputs))
                        \o Concat([j \in 1..Len(t.outputs) |-> Output_encode_raw(t.outputs[j])])
                        \o LeBytes(t.lock_time, 4)
    /\ (IsDecode /\ res.buf.how = "trailing") =>
        /\ res.out.ok
        /\ res.out.rest \in TrailingBytes
        /\ res.buf.bytes = encode_raw(tx) \o res.out.rest

C27_Witness ==
    /\ IsDecode
    /\ res.buf.how = "trailing"
    /\ Len(tx.inputs) >= 1
    /\ Len(tx.outputs) >= 1
    /\ res.out.ok
    /\ Len(res.out.rest) = MaxTrailing

\* C28: decode returns on every buffer, and when the declared input or
\* output count exceeds what the remaining bytes can hold (up to 2^64 - 1)
\* it stops at the first element that fails: the elements attempted (the
\* index of the failing one, plus one) are at most the elements that fit in
\* the bytes after the count (41 bytes at least per input, 9 per output)
\* plus one.
C28_BoundedAttempts ==
    IsDecode =>
        /\ res.out.ok =>
            (OutpointLen + 1 + 4) * Len(res.out.val.inputs)
                + (8 + 1) * Len(res.out.val.outputs) <= Len(res.buf.bytes)
        /\ (~res.out.ok /\ res.out.err[1] = "Input") =>
            /\ res.out.at >= 0
            /\ res.out.at + 1 <=
                ((Len(res.buf.bytes) - 4 - CountLen(res.buf, "input_count"))
                    \div (OutpointLen + 1 + 4)) + 1
        /\ (~res.out.ok /\ res.out.err[1] = "Output") =>
            /\ res.out.at >= 0
            /\ res.out.at + 1 <=
                ((Len(res.buf.bytes) - OutputOffset(tx, res.buf, 0)) \div (8 + 1)) + 1

C28_Witness ==
    /\ IsDecode
    /\ res.buf.how = "replace"
    /\ res.buf.field = "output_count"
    /\ res.buf.varint = <<255, 255, 255, 255, 255, 255, 255, 255, 255>>
    /\ Len(tx.outputs) = 2
    /\ ~res.out.ok
    /\ res.out.err[1] = "Output"
    /\ res.out.at = 2

(***************************************************************************)
(* Claims about the hashes and identifiers (checked under SpecHash).       *)
(***************************************************************************)
\* The transaction with inputs i and j, resp. outputs i and j, exchanged.
Exchange(seq, i, j) ==
    [k \in 1..Len(seq) |-> IF k = i THEN seq[j] ELSE IF k = j THEN seq[i] ELSE seq[k]]

ExchangeInputs(t, i, j) == [t EXCEPT !.inputs = Exchange(t.inputs, i, j)]

ExchangeOutputs(t, i, j) == [t EXCEPT !.outputs = Exchange(t.outputs, i, j)]

\* C7: transaction_hash(t) is sha256d of the serialization of t and
\* transaction_hash_rev(t) is that digest with its 32 bytes reversed.
C7_HashRevIsReversal ==
    /\ res.op = "transaction_hash" => res.out = sha256d(encode_raw(tx))
    /\ res.op = "transaction_hash_rev" =>
        [k \in 1..32 |-> res.out[33 - k]] = sha256d(encode_raw(tx))

\* The 74-byte buffer of the transaction id, as the claim lays it out.
C8_Buffer(t) ==
    LET input_leaves ==
            [i \in 1..Len(t.inputs) |->
                sha256d(Outpoint_encode_raw(t.inputs[i].outpoint)
                            \o LeBytes(t.inputs[i].sequence, 4))]
        output_leaves ==
            [j \in 1..Len(t.outputs) |-> sha256d(Output_encode_raw(t.outputs[j]))]
        input_tree == lotus_merkle_root(input_leaves)
        output_tree == lotus_merkle_root(output_leaves)
    IN  LeBytes(t.version, 4)
            \o input_tree[1] \o <<input_tree[2]>>
            \o output_tree[1] \o <<output_tree[2]>>
            \o LeBytes(t.lock_time, 4)

C10_SingleBugConstant ==
    (/\ res.op = "signature_hash"
     /\ res.sig_hash_type = "Single"
     /\ res.input_index >= Len(tx.outputs)) =>
        /\ res.out.kind = "Some"
        /\ res.out.digest = [k \in 1..32 |-> IF k = 1 THEN 1 ELSE 0]

C10_Witness ==
    /\ res.op = "signature_hash"
    /\ res.sig_hash_type = "Single"
    /\ tx.inputs = <<>>
    /\ Len(tx.outputs) = 1
    /\ res.input_index = 1
    /\ res.script_pubkey # <<>>
    /\ res.out.kind = "Some"

(***************************************************************************)
(* What transaction_id commits to (checked under SpecId).                  *)
(***************************************************************************)
\* The transaction with the script of input i replaced by scripts[i].
WithInputScripts(t, scripts) ==
    [t EXCEPT !.inputs = [i \in 1..Len(t.inputs) |->
                            [t.inputs[i] EXCEPT !.script = scripts[i]]]]

InputScripts == {<<>>, <<81>>, <<82, 83>>}

\* Transactions that differ from t in one field other than an input
\* script: the version, the lock_time, and a field of its first and of its
\* last input and output.
OneFieldChanged(t) ==
    {[t EXCEPT !.version = t.version + 1], [t EXCEPT !.lock_time = t.lock_time + 1]}
        \cup {[t EXCEPT !.inputs[i].outpoint.vout = t.inputs[i].outpoint.vout + 1] :
                i \in {k \in {Len(t.inputs)} : k >= 1}}
        \cup {[t EXCEPT !.inputs[i].outpoint.tx_id[32] = 255 - t.inputs[i].outpoint.tx_id[32]] :
                i \in {k \in {1} : k <= Len(t.inputs)}}
        \cup {[t EXCEPT !.inputs[i].sequence = t.inputs[i].sequence - 1] :
                i \in {k \in {Len(t.inputs)} : k >= 1}}
        \cup {[t EXCEPT !.outputs[j].value = t.outputs[j].value + 1] :
                j \in {k \in {1} : k <= Len(t.outputs)}}
        \cup {[t EXCEPT !.outputs[j].script = t.outputs[j].script \o <<0>>] :
                j \in {k \in {Len(t.outputs)} : k >= 1}}

IsSignatureHash == res.op = "signature_hash"

\* The Single short-circuit applies to the recorded call.
ShortCircuit == res.sig_hash_type = "Single" /\ res.input_index >= Len(tx.outputs)

\* C11 (as stated): for each of the six sighash types, when the Single
\* short-circuit does not apply and input_index >= inputs.len(),
\* signature_hash returns None: no digest and no abort.
C11_OutOfRangeGivesNone ==
    (/\ IsSignatureHash
     /\ ~ShortCircuit
     /\ res.input_index >= Len(tx.inputs)) =>
        res.out.kind = "None"

\* C12 (as stated): signature_hash returns Some or None for every sighash
\* type, transaction and input_index; the unreachable!() arm of the output
\* match is never executed.
C12_UnreachableArmNeverRuns ==
    IsSignatureHash => res.out.kind \in {"Some", "None"}

\* C13 (as stated): with AnyoneCanPayAll and an in-range input_index,
\* signature_hash returns a digest, and it is the digest of every
\* transaction that differs only in the inputs other than input_index.
C13_AnyoneCanPayIsolation ==
    (/\ IsSignatureHash
     /\ res.sig_hash_type = "AnyoneCanPayAll"
     /\ res.input_index < Len(tx.inputs)) =>
        /\ res.out.kind = "Some"
        /\ \A ins \in SeqsUpTo(InputChoices, MaxInputs) :
            (/\ res.input_index < Len(ins)
             /\ ins[res.input_index + 1] = tx.inputs[res.input_index + 1]) =>
                signature_hash([tx EXCEPT !.inputs = ins], res.input_index,
                               res.script_pubkey, res.sig_hash_type).digest
                    = res.out.digest

\* C14: with sig_hash_type None and an in-range input_index the transient
\* output list is empty and the digest is the one of the same transaction
\* with no outputs at all; hence any two transactions that differ only in
\* their outputs (values, scripts or number) have the same digest.
C14_NoneIgnoresOutputs ==
    (/\ IsSignatureHash
     /\ res.sig_hash_type = "None"
     /\ res.input_index < Len(tx.inputs)) =>
        /\ res.out.kind = "Some"
        /\ res.out.built = "inputs_outputs"
        /\ res.out.outputs = <<>>
        /\ res.out.digest =
            signature_hash([tx EXCEPT !.outputs = <<>>], res.input_index,
                           res.script_pubkey, "None").digest

C14_Witness ==
    /\ IsSignatureHash
    /\ res.sig_hash_type = "None"
    /\ res.input_index = 1
    /\ Len(tx.inputs) = 2
    /\ Len(tx.outputs) = 2
    /\ tx.outputs[1] # tx.outputs[2]
    /\ res.out.kind = "Some"

C16_SingleInputList ==
    (/\ IsSignatureHash
     /\ is_anyone_can_pay(res.sig_hash_type)
     /\ res.input_index < Len(tx.inputs)
     /\ ~ShortCircuit) =>
        /\ res.out.built # "nothing"
        /\ res.out.inputs =
            <<[outpoint |-> tx.inputs[res.input_index + 1].outpoint,
               script |-> res.script_pubkey,
               sequence |-> tx.inputs[res.input_index + 1].sequence]>>

C16_Witness ==
    /\ IsSignatureHash
    /\ res.sig_hash_type = "All"
    /\ res.input_index = 1
    /\ Len(tx.inputs) = 2
    /\ tx.inputs[1] # tx.inputs[2]
    /\ tx.inputs[2].script # res.script_pubkey
    /\ Len(res.out.inputs) = 1

\* C17: when is_anyone_can_pay() does not hold for the sighash type, the
\* transient input list has the length and the outpoints of the original
\* inputs, in order; the input at input_index carries script_pubkey and its
\* own sequence; every other input carries the empty script, and sequence 0
\* if the type is Single or None and its own sequence otherwise.
C17_AllInputsList ==
    (IsSignatureHash /\ ~is_anyone_can_pay(res.sig_hash_type)) =>
        /\ res.out.built # "nothing"
        /\ Len(res.out.inputs) = Len(tx.inputs)
        /\ \A k \in 1..Len(tx.inputs) :
            /\ res.out.inputs[k].outpoint = tx.inputs[k].outpoint
            /\ k - 1 = res.input_index =>
                /\ res.out.inputs[k].script = res.script_pubkey
                /\ res.out.inputs[k].sequence = tx.inputs[k].sequence
            /\ k - 1 # res.input_index =>
                /\ res.out.inputs[k].script = <<>>
                /\ res.out.inputs[k].sequence =
                    IF res.sig_hash_type \in {"Single", "None"}
                    THEN 0 ELSE tx.inputs[k].sequence

C17_Witness ==
    /\ IsSignatureHash
    /\ res.sig_hash_type = "AnyoneCanPaySingle"
    /\ res.input_index = 0
    /\ res.script_pubkey # <<>>
    /\ Len(tx.inputs) = 2
    /\ tx.inputs[2].script # <<>>
    /\ Len(res.out.inputs) = 2
    /\ res.out.inputs[2].sequence # 0

\* C18: with Single and input_index < outputs.len(), the transient output
\* list (built once the input list is, that is for input_index <
\* inputs.len()) has exactly input_index + 1 elements: default outputs (zero
\* value, empty script) before position input_index, the original output at
\* position input_index, nothing after it; with All the transient output
\* list is the original output list.
C18_OutputList ==
    /\ (/\ IsSignatureHash
        /\ res.sig_hash_type = "Single"
        /\ res.input_index < Len(tx.outputs)
        /\ res.input_index < Len(tx.inputs)) =>
            /\ res.out.built = "inputs_outputs"
            /\ Len(res.out.outputs) = res.input_index + 1
            /\ \A k \in 1..res.input_index :
                res.out.outputs[k] = [value |-> 0, script |-> <<>>]
            /\ res.out.outputs[res.input_index + 1] = tx.outputs[res.input_index + 1]
    /\ (/\ IsSignatureHash
        /\ res.sig_hash_type = "All"
        /\ res.input_index < Len(tx.inputs)) =>
            /\ res.out.built = "inputs_outputs"
            /\ res.out.outputs = tx.outputs

C18_Witness ==
    /\ IsSignatureHash
    /\ res.sig_hash_type = "Single"
    /\ res.input_index = 1
    /\ Len(tx.inputs) = 2
    /\ Len(tx.outputs) = 2
    /\ tx.outputs[1] # [value |-> 0, script |-> <<>>]
    /\ Len(res.out.outputs) = 2
    /\ res.out.outputs[1] = [value |-> 0, script |-> <<>>]

\* C19: whenever signature_hash returns Some(d) other than through the
\* Single short-circuit, d is sha256d of: version, input count, the
\* transient inputs, output count, the transient outputs, lock_time (the
\* wire order, with the original version and lock_time), followed by the
\* sighash type's numeric value as 4 little-endian bytes.
C19_DigestLayout ==
    (IsSignatureHash /\ res.out.kind = "Some" /\ ~ShortCircuit) =>
        res.out.digest =
            sha256d(LeBytes(tx.version, 4)
                    \o VarInt_encode_raw(Len(res.out.inputs))
                    \o Concat([i \in 1..Len(res.out.inputs) |->
                                Input_encode_raw(res.out.inputs[i])])
                    \o VarInt_encode_raw(Len(res.out.outputs))
                    \o Concat([j \in 1..Len(res.out.outputs) |->
                                Output_encode_raw(res.out.outputs[j])])
                    \o LeBytes(tx.lock_time, 4)
                    \o <<[All |-> 1, None |-> 2, Single |-> 3,
                          AnyoneCanPayAll |-> 129, AnyoneCanPayNone |-> 130,
                          AnyoneCanPaySingle |-> 131][res.sig_hash_type],
                         0, 0, 0>>)

C19_Witness ==
    /\ IsSignatureHash
    /\ res.sig_hash_type = "Single"
    /\ res.input_index = 1
    /\ Len(tx.inputs) = 2
    /\ Len(tx.outputs) = 2
    /\ tx.version = 2
    /\ res.out.kind = "Some"
    /\ res.out.digest # UNIT_HASH

\* C24: signature_hash takes the fixed-constant short-circuit (it returns
\* Some before building any list) if and only if sig_hash_type is Single and
\* input_index >= outputs.len(); for the five other types it never returns
\* the constant, also when input_index >= outputs.len() or there is no
\* output.
C24_ShortCircuitOnlySingle ==
    IsSignatureHash =>
        /\ (res.out.kind = "Some" /\ res.out.built = "nothing") <=>
            (res.sig_hash_type = "Single" /\ res.input_index >= Len(tx.outputs))
        /\ res.sig_hash_type # "Single" =>
            res.out.digest # [k \in 1..32 |-> IF k = 1 THEN 1 ELSE 0]

C24_Witness ==
    /\ IsSignatureHash
    /\ res.sig_hash_type = "All"
    /\ tx.outputs = <<>>
    /\ Len(tx.inputs) = 1
    /\ res.input_index = 0
    /\ res.out.kind = "Some"
    /\ res.out.built = "inputs_outputs"

\* C26: the sequence-zeroing case of signature_hash is never exercised:
\* Single and None take the single-input branch, so in every transient input
\* list that signature_hash builds each input has the sequence it has in the
\* original transaction.
C26_SequencesKept ==
    (IsSignatureHash /\ res.out.built # "nothing") =>
        /\ res.sig_hash_type \in {"Single", "None"} =>
            /\ Len(res.out.inputs) = 1
            /\ res.out.inputs[1].outpoint = tx.inputs[res.input_index + 1].outpoint
        /\ \A k \in 1..Len(res.out.inputs) :
            res.out.inputs[k].sequence =
                IF res.sig_hash_type \in {"All", "Single", "None"}
                THEN tx.inputs[res.input_index + 1].sequence
                ELSE tx.inputs[k].sequence

C26_Witness ==
    /\ IsSignatureHash
    /\ res.sig_hash_type = "None"
    /\ res.input_index = 0
    /\ Len(tx.inputs) = 2
    /\ tx.inputs[1].outpoint # tx.inputs[2].outpoint
    /\ res.out.kind = "Some"
    /\ res.out.inputs[1].sequence # 0

(***************************************************************************)
(* Frame of the operations that read the transaction (checked under        *)
(* SpecFrame).                                                             *)
(***************************************************************************)
\* C20: signature_hash, transaction_hash, transaction_id, encoded_len and
\* encode leave the transaction unchanged, whatever the arguments and the
\* outcome; so after any sequence of these calls the version, inputs,
\* outputs and lock_time are the original ones, and the call repeated on
\* the transaction as it is after the call gives the same result.
C20_Frame ==
    [][/\ tx'.version = tx.version
       /\ tx'.inputs = tx.inputs
       /\ tx'.outputs = tx.outputs
       /\ tx'.lock_time = tx.lock_time
       /\ res'.op = "signature_hash" =>
            res'.out = signature_hash(tx', res'.input_index, res'.script_pubkey,
                                      res'.sig_hash_type)
       /\ res'.op = "transaction_hash" => res'.out = Transaction_transaction_hash(tx')
       /\ res'.op = "transaction_id" => res'.out = transaction_id(tx')
       /\ res'.op = "encoded_len" => res'.out = encoded_len(tx')
       /\ res'.op = "encode" => res'.out = encode(tx', res'.cap)]_vars

C20_Witness ==
    /\ IsSignatureHash
    /\ res.sig_hash_type = "All"
    /\ res.input_index = 0
    /\ Len(tx.inputs) = 2
    /\ tx.inputs[1].script # res.script_pubkey
    /\ res.out.kind = "Some"
    /\ res.out.inputs # tx.inputs

(***************************************************************************)
(* Claims about the bearer-token scheme (checked under SpecToken).         *)
(***************************************************************************)
IsValidate == res.op = "validate_token"

\* C22: for every key and data, validate_token(data, construct_token(data))
\* on a scheme with the same key is Ok(()), and construct_token gives the
\* same token for the same key and data: the unpadded URL-safe base64 text
\* of the 32-byte tag.
C22_TokenRoundTrip ==
    /\ (/\ IsValidate
        /\ res.made.how = "constructed"
        /\ res.made.key = res.key
        /\ res.made.data = res.data) => res.out.ok
    /\ res.op = "construct_token" =>
        /\ res.out = construct_token(HmacScheme_new(res.key), res.data)
        /\ Len(res.out) = 43
        /\ \A k \in 1..Len(res.out) : res.out[k] \in UrlSafeChars
        /\ validate_token(HmacScheme_new(res.key), res.data, res.out).ok

C22_Witness ==
    /\ IsValidate
    /\ res.made.how = "constructed"
    /\ res.made.key = res.key
    /\ res.made.data = res.data
    /\ res.data # <<>>
    /\ res.out.ok

\* The token is the unpadded URL-safe base64 text of some byte string: its
\* characters are of the alphabet, its length is one that 4 characters per
\* 3 bytes can give, and encoding the bytes it stands for gives it back.
Decodable(token) ==
    /\ \A k \in 1..Len(token) : token[k] \in UrlSafeChars
    /\ Len(token) % 4 # 1
    /\ base64_encode_config(
            Base64Bytes([k \in 1..Len(token) |-> SymbolOf(token[k])]).bytes) = token

\* C29 (as stated): validate_token returns Base64(err) exactly when the
\* token is not unpadded URL-safe base64 (and then hmac::verify is not
\* reached), Invalid exactly when the token decodes to bytes other than the
\* HMAC-SHA256 tag of data under the scheme's key; a token constructed for
\* other data, or by a scheme with a different key, is rejected with Invalid.
C29_OtherKeyRejected ==
    IsValidate =>
        LET tag == hmac_sign(HmacScheme_new(res.key), res.data)
            text == Decodable(res.token)
            base64 == ~res.out.ok /\ res.out.err[1] = "Base64"
            invalid == ~res.out.ok /\ res.out.err = <<"Invalid">>
        IN  /\ base64 <=> ~text
            /\ base64 => ~res.out.verified
            /\ invalid <=> (text /\ res.token # base64_encode_config(tag))
            /\ (/\ res.made.how = "constructed"
                /\ \/ res.made.key # res.key
                   \/ res.made.data # res.data) => invalid

\* Two secrets of at most 64 bytes are the same HMAC key when they differ
\* only in zero bytes at the end.
SameHmacKey(a, b) ==
    \A k \in 1..64 :
        (IF k <= Len(a) THEN a[k] ELSE 0) = (IF k <= Len(b) THEN b[k] ELSE 0)

\* C29 (amended): as above, but a token constructed by a scheme with a
\* different key is rejected with Invalid only if the two keys differ in
\* more than zero bytes at the end; otherwise the two schemes compute the
\* same tags and the token is accepted.
C29_FailuresDistinguished ==
    IsValidate =>
        LET tag == hmac_sign(HmacScheme_new(res.key), res.data)
            text == Decodable(res.token)
            base64 == ~res.out.ok /\ res.out.err[1] = "Base64"
            invalid == ~res.out.ok /\ res.out.err = <<"Invalid">>
        IN  /\ base64 <=> ~text
            /\ base64 => ~res.out.verified
            /\ invalid <=> (text /\ res.token # base64_encode_config(tag))
            /\ res.out.ok <=> res.token = base64_encode_config(tag)
            /\ res.made.how = "constructed" =>
                (invalid <=> \/ ~SameHmacKey(res.made.key, res.key)
                             \/ res.made.data # res.data)

C29_Witness ==
    /\ IsValidate
    /\ res.made.how = "constructed"
    /\ res.made.key # res.key
    /\ res.made.data = res.data
    /\ ~res.out.ok
    /\ res.out.err = <<"Invalid">>

(***************************************************************************)
(* Claims about the broadcaster (checked under SpecBroadcast).             *)
(***************************************************************************)
\* C23: call resolves to exactly one of five outcomes, decided by the
\* JSON-RPC exchange: a transport failure gives Client; a response with a
\* result gives Ok(result), or Json if the result is not a string, also
\* when the response carries an error too; a response with an error and no
\* result gives Rpc; a response with neither gives EmptyJson.  No outcome
\* is a codec error, and Ok is the result of a response only.
C23_FiveOutcomes ==
    res.op = "call" =>
        LET x == res.exchange
            out == res.out
        IN  /\ x.transport # "ok" <=> (~out.ok /\ out.err = <<"Client", x.transport>>)
            /\ (x.transport = "ok" /\ x.has_result /\ x.result_json = "string") <=>
                    (out.ok /\ out.val = x.result)
            /\ (x.transport = "ok" /\ x.has_result /\ x.result_json # "string") <=>
                    (~out.ok /\ out.err[1] = "Json")
            /\ (x.transport = "ok" /\ ~x.has_result /\ x.has_error) <=>
                    (~out.ok /\ out.err = <<"Rpc", x.error>>)
            /\ (x.transport = "ok" /\ ~x.has_result /\ ~x.has_error) <=>
                    (~out.ok /\ out.err = <<"EmptyJson">>)
            /\ ~out.ok => out.err \notin DecodeErrors
            /\ res.request = [method |-> "sendrawtransaction",
                              params |-> hex_encode(encode_raw(tx))]

C23_Witness ==
    /\ res.op = "call"
    /\ Len(tx.inputs) >= 1
    /\ res.exchange.transport = "ok"
    /\ res.exchange.has_result
    /\ res.exchange.result_json = "string"
    /\ res.exchange.has_error
    /\ res.out.ok

(***************************************************************************)
(* Claims about the keyserver client (checked under SpecKeyserver).        *)
(***************************************************************************)
IsKeyserverCall == res.op \in {"get_peers", "get_metadata", "put_metadata"}

\* The path the operation of the last call addresses: "{url}/peers" for
\* get_peers, "{url}/keys/{address}" for get_metadata and put_metadata.
AddressedPath ==
    IF res.op = "get_peers"
    THEN res.keyserver_url \o <<"/", "p", "e", "e", "r", "s">>
    ELSE res.keyserver_url \o <<"/", "k", "e", "y", "s", "/">> \o res.address

====
